---------------------------- MODULE Spec2Model ----------------------------
(***************************************************************************)
(* Model of the Reddit -> Lemmy repost bot (src/main.py).                  *)
(*                                                                         *)
(* Two state machines share this module:                                   *)
(*   Spec        the bot: repeated runs of main() against a wall clock,    *)
(*               the persisted published_urls.json and an external feed;   *)
(*   SpecExtract format_and_extract applied to bounded anchor lists, and   *)
(*               applied again to the labels it produced.                  *)
(*                                                                         *)
(* Representation of Python values                                         *)
(*   - a str whose characters matter (anchor text, titles, the markdown    *)
(*     body) is a sequence of tokens, each token a literal piece of text;  *)
(*     no token is a prefix or a concatenation of other tokens, so two     *)
(*     strings are equal iff their token sequences are;                    *)
(*   - a URL is a TLA+ string, never taken apart by main.py itself;        *)
(*   - a value that may be a str, an int or None is a tagged record        *)
(*     (PyStr, PyInt, PyNone), so that str/int/None compare unequal as in  *)
(*     Python;                                                             *)
(*   - a timestamp is an integer number of hours; an ISO-8601 string is    *)
(*     modelled by the hour it denotes.                                    *)
(*                                                                         *)
(* Not modelled: the log-in and community lookup (lines 150-156), the      *)
(* value read by get_last_published_time, which main only prints, and      *)
(* src/gh_download_artifact.py, a separate tool.                           *)
(***************************************************************************)
EXTENDS Integers, Sequences, FiniteSets, TLC

VARIABLES
    clock,                 \* the wall clock, dt.datetime.now(dt.timezone.utc)
    published_urls_json,   \* the file published_urls.json: link -> published_time
    last_date_published,   \* the file last_date_published.txt (PyNone while absent)
    pc,                    \* position of the current run of main()
    feed,                  \* feed.entries of the current run
    dt_now,                \* main's dt_now (line 160)
    published_urls_dict,   \* main's in-memory dict
    entries_to_publish,    \* main's list of eligible entries
    idx,                   \* position of the publish loop in entries_to_publish
    skip_log,              \* the filter's "Skip ..." prints of the current run
    ignore_log,            \* the publish loop's "Ignore post ..." prints
    posted,                \* lemmy.post.create calls of the current run
    prune_now,             \* dt_now read inside remove_old_url_keys (line 108)
    pruned_dict,           \* history: the dict as returned by remove_old_url_keys
    json_at_start,         \* history: published_urls.json as the run found it
    runs,                  \* history: number of runs started
    saved_posts,           \* history: entries posted by earlier runs that saved
    lost_posts,            \* history: entries posted by the previous run, if it stopped before its save
    x_pc,                  \* SpecExtract: position
    x_summary,             \* SpecExtract: the anchors handed to format_and_extract
    x_result,              \* SpecExtract: what format_and_extract returned
    x_labels,              \* SpecExtract: the label of each anchor of x_summary
    x_first                \* SpecExtract: input, labels and result of the first application

botvars == <<clock, published_urls_json, last_date_published, pc, feed, dt_now,
             published_urls_dict, entries_to_publish, idx, skip_log, ignore_log,
             posted, prune_now, pruned_dict, json_at_start, runs, saved_posts,
             lost_posts>>
xvars == <<x_pc, x_summary, x_result, x_labels, x_first>>
vars == <<botvars, xvars>>

----------------------------------------------------------------------------
(* Bounds of the model *)

\* longest feed of a run
MaxFeed == 2
\* number of runs of main() in one behaviour
MaxRuns == 2
\* the clock stops advancing here
MaxClock == 36
\* longest anchor text, in tokens, given to the label rule
MaxText == 3
\* longest anchor list given to format_and_extract
MaxAnchors == 3

\* all sequences over S of length at most n
BoundedSeq(S, n) == UNION {[1..k -> S] : k \in 0..n}

----------------------------------------------------------------------------
(* Python values *)

PyStr(s) == [t |-> "str", s |-> s, n |-> 0]
PyInt(n) == [t |-> "int", s |-> "", n |-> n]
PyNone == [t |-> "None", s |-> "", n |-> 0]

\* str.strip(): drop leading and trailing whitespace
IsSpace(c) == c = " "
RECURSIVE LStrip(_)
LStrip(s) == IF s # <<>> /\ IsSpace(Head(s)) THEN LStrip(Tail(s)) ELSE s
RECURSIVE RStrip(_)
RStrip(s) ==
    IF s # <<>> /\ IsSpace(s[Len(s)]) THEN RStrip(SubSeq(s, 1, Len(s) - 1)) ELSE s
Strip(s) == RStrip(LStrip(s))

StartsWith(s, p) == Len(s) >= Len(p) /\ SubSeq(s, 1, Len(p)) = p
EndsWith(s, p) == Len(s) >= Len(p) /\ SubSeq(s, Len(s) - Len(p) + 1, Len(s)) = p

\* html.unescape: each character reference becomes the character it names
UnescapeToken(c) ==
    CASE c = "&amp;" -> "&"
      [] c = "&lt;" -> "<"
      [] OTHER -> c
HtmlUnescape(s) == [i \in 1..Len(s) |-> UnescapeToken(s[i])]

----------------------------------------------------------------------------
(* format_and_extract *)

LinkText == <<"[", "link", "]">>
CommentsText == <<"[", "comments", "]">>

\* lines 41-45: the otherwise branch
StripBrackets(first_child) ==
    LET a == IF StartsWith(first_child, <<"[">>) THEN Tail(first_child) ELSE first_child
        b == IF EndsWith(a, <<"]">>) THEN SubSeq(a, 1, Len(a) - 1) ELSE a
    IN  HtmlUnescape(b)

\* lines 33-45: the label (text) of an anchor whose stripped first child is first_child
LabelText(first_child) ==
    IF first_child = LinkText THEN <<"Link Shared on Reddit">>
    ELSE IF first_child = CommentsText THEN <<"Original Reddit Comments">>
    ELSE IF StartsWith(first_child, <<"/u/">>) THEN <<"Author: ">> \o first_child
    ELSE StripBrackets(first_child)

\* line 47: the bullet line appended for one anchor
BulletLine(text, url) == <<"- [">> \o text \o <<"](", url, ")", "\n">>

\* a variant of NextExtractedUrl: the first [link] anchor wins
KeepFirstExtractedUrl(first_child, url, extracted_url) ==
    IF first_child = LinkText /\ extracted_url = PyNone THEN PyStr(url) ELSE extracted_url

\* lines 33-34: extracted_url after an anchor
NextExtractedUrl(first_child, url, extracted_url) ==
    IF first_child = LinkText THEN PyStr(url) ELSE extracted_url

\* lines 29-47: the loop, from anchor k on
RECURSIVE FormatLoop(_, _, _, _)
FormatLoop(links, k, formatted, extracted_url) ==
    IF k > Len(links) THEN [formatted |-> formatted, extracted_url |-> extracted_url]
    ELSE LET first_child == Strip(links[k].first_child)
             url == links[k].href
         IN  FormatLoop(links, k + 1,
                        formatted \o BulletLine(LabelText(first_child), url),
                        NextExtractedUrl(first_child, url, extracted_url))

\* lines 22-49
FormatAndExtract(summary) == FormatLoop(summary, 1, <<>>, PyNone)


\* the bullet lines of a formatted body: split after every "\n"
RECURSIVE Lines(_)
Lines(formatted) ==
    IF formatted = <<>> THEN <<>>
    ELSE LET n == CHOOSE i \in 1..(Len(formatted) + 1) :
                     /\ i = Len(formatted) + 1 \/ formatted[i] = "\n"
                     /\ \A j \in 1..(i - 1) : formatted[j] # "\n"
         IN  IF n > Len(formatted) THEN <<formatted>>
             ELSE <<SubSeq(formatted, 1, n - 1)>>
                      \o Lines(SubSeq(formatted, n + 1, Len(formatted)))

\* the label of a bullet line "- [label](url)": what stands between "- [" and "](url)"
LabelOfLine(line) == SubSeq(line, 2, Len(line) - 3)
LabelsOf(formatted) == [k \in 1..Len(Lines(formatted)) |-> LabelOfLine(Lines(formatted)[k])]

----------------------------------------------------------------------------
(* SpecExtract: format_and_extract on bounded inputs *)

Alphabet == {"[", "]", "link", "comments", "/u/", "foo", " ", "&amp;"}
Hrefs == {"http://a", "http://b", "http://c"}

\* anchor texts for the label rule: every non-empty text of at most MaxText tokens
Texts == BoundedSeq(Alphabet, MaxText) \ {<<>>}
\* anchor texts for anchor lists
ScenarioTexts == {LinkText, CommentsText, <<"/u/", "foo">>, <<"[", "foo", "]">>}

SummaryInputs ==
    {<<[first_child |-> t, href |-> "http://a"]>> : t \in Texts}
        \cup BoundedSeq([first_child : ScenarioTexts, href : Hrefs], MaxAnchors)

NoResult == [formatted |-> <<>>, extracted_url |-> PyNone]

\* no run has started; the clock stands at the publication time of the newest entry
BotIdle ==
    /\ clock = 12
    /\ published_urls_json = <<>>
    /\ last_date_published = PyNone
    /\ pc = "idle"
    /\ feed = <<>>
    /\ dt_now = 0
    /\ published_urls_dict = <<>>
    /\ entries_to_publish = <<>>
    /\ idx = 1
    /\ skip_log = <<>>
    /\ ignore_log = <<>>
    /\ posted = <<>>
    /\ prune_now = 0
    /\ pruned_dict = <<>>
    /\ json_at_start = <<>>
    /\ runs = 0
    /\ saved_posts = {}
    /\ lost_posts = {}

InitExtract ==
    /\ BotIdle
    /\ x_pc = "in"
    /\ x_summary \in SummaryInputs
    /\ x_result = NoResult
    /\ x_labels = <<>>
    /\ x_first = [summary |-> <<>>, labels |-> <<>>, result |-> NoResult]

\* format_and_extract(summary)
Extract ==
    /\ x_pc = "in"
    /\ x_result' = FormatAndExtract(x_summary)
    /\ x_labels' = LabelsOf(x_result'.formatted)
    /\ x_pc' = "out"
    /\ UNCHANGED <<x_summary, x_first, botvars>>

\* format_and_extract again, each anchor's text replaced by the label it was given
ExtractAgain ==
    /\ x_pc = "out"
    /\ x_first' = [summary |-> x_summary, labels |-> x_labels, result |-> x_result]
    /\ x_summary' = [k \in 1..Len(x_summary) |->
                        [first_child |-> x_labels[k], href |-> x_summary[k].href]]
    /\ x_result' = FormatAndExtract(x_summary')
    /\ x_labels' = LabelsOf(x_result'.formatted)
    /\ x_pc' = "again"
    /\ UNCHANGED botvars

NextExtract == Extract \/ ExtractAgain

SpecExtract == InitExtract /\ [][NextExtract]_vars


----------------------------------------------------------------------------
(* The bot: main() *)

\* limit_hours
LimitHours == 24

\* the clock advances by one of these numbers of hours between two steps
TickSteps == {12}

\* the marker of line 174, one token of a title
DailyThread == "General Discussion - Daily Thread"
\* line 174: marker in entry.title
Contains(title, marker) == \E i \in 1..Len(title) : title[i] = marker

Link1 == "https://www.reddit.com/r/bapcsalescanada/comments/1"
Link2 == "https://www.reddit.com/r/bapcsalescanada/comments/2"
DealTitle == <<"[GPU] RTX 4070 ", "&amp;", " more">>
DailyTitle == <<DailyThread, " - May 01">>
ShopUrl == "https://www.memoryexpress.com/Products/1"
IgnoredUrl == "https://www.amazon.ca/dp/2"
\* a post that links to a shop
ShopSummary ==
    <<[first_child |-> <<"/u/", "foo">>, href |-> "https://www.reddit.com/user/foo"],
      [first_child |-> LinkText, href |-> ShopUrl]>>
\* a post that links to a shop of the ignore list
IgnoredSummary == <<[first_child |-> LinkText, href |-> IgnoredUrl]>>
\* a post with no [link] anchor
NoLinkSummary == <<[first_child |-> CommentsText, href |-> Link2]>>

\* a feedparser entry
Entry(link, title, published, summary) ==
    [link |-> link, title |-> title, published |-> published, summary |-> summary]

\* the entries the feed may hold; two of them share a link, as a re-dated post would
Entries ==
    {Entry(Link1, DealTitle, 0, ShopSummary),
     Entry(Link1, DealTitle, 12, ShopSummary),
     Entry(Link2, DealTitle, 12, IgnoredSummary),
     Entry(Link2, DealTitle, 12, NoLinkSummary),
     Entry(Link1, DailyTitle, 0, ShopSummary)}
Feeds == BoundedSeq(Entries, MaxFeed)

\* ignored.txt, line by line
IgnoredTxt == <<<<"#", " ignored stores">>, <<"amazon", ".", "ca">>, <<>>,
                <<" ", "ebay", ".", "ca", " ">>>>

\* lines 83-90
LoadIgnoredDomains ==
    LET lines == [i \in 1..Len(IgnoredTxt) |-> Strip(IgnoredTxt[i])]
    IN  {PyStr(lines[i]) : i \in {j \in 1..Len(lines) :
                                     ~StartsWith(lines[j], <<"#">>) /\ lines[j] # <<>>}}

\* tldextract.extract on the URLs of the model: [domain, suffix]
TldExtract(url) ==
    CASE url = ShopUrl -> [domain |-> "memoryexpress", suffix |-> "com"]
      [] url = IgnoredUrl -> [domain |-> "amazon", suffix |-> "ca"]
      [] OTHER -> [domain |-> "reddit", suffix |-> "com"]

\* lines 92-99: tldextract.extract raises on None, and the bare except gives -1
FindBaseDomain(extracted_url) ==
    IF extracted_url.t # "str" THEN PyInt(-1)
    ELSE LET url_parsed == TldExtract(extracted_url.s)
         IN  PyStr(<<url_parsed.domain, ".", url_parsed.suffix>>)

\* a dict with key k set to v
DictSet(d, k, v) == [x \in DOMAIN d \cup {k} |-> IF x = k THEN v ELSE d[x]]

\* lines 65-72: the file's content, {} when the file does not exist
LoadPublishedUrlsDict == published_urls_json

\* a variant of KeepsRecord: a record of exactly limit_hours is kept
KeepsRecordInclusive(now, published_time, limit_hours) == now - published_time <= limit_hours

\* lines 112-114: whether remove_old_url_keys keeps a record
KeepsRecord(now, published_time, limit_hours) == now - published_time < limit_hours

\* lines 101-117
RemoveOldUrlKeys(url_dict, now, limit_hours) ==
    [url \in {u \in DOMAIN url_dict :
                 KeepsRecord(now, url_dict[u].published_time, limit_hours)}
        |-> url_dict[url]]

\* a variant of OlderThanLimit: the difference is taken the wrong way round
OlderThanLimitSwapped(now, entry_published) == entry_published - now > LimitHours

\* line 177
OlderThanLimit(now, entry_published) == now - entry_published > LimitHours

\* a variant of FilterLoop: the age rule is tried before the daily-thread rule
RECURSIVE FilterLoopAgeFirst(_, _, _, _, _, _)
FilterLoopAgeFirst(entries, k, now, dict, to_publish, log) ==
    IF k > Len(entries) THEN [entries_to_publish |-> to_publish, skip_log |-> log]
    ELSE LET entry == entries[k]
         IN  IF OlderThanLimit(now, entry.published)
             THEN FilterLoopAgeFirst(entries, k + 1, now, dict, to_publish,
                             Append(log, [skip |-> "published >24h ago", link |-> entry.link]))
             ELSE IF Contains(entry.title, DailyThread)
             THEN FilterLoopAgeFirst(entries, k + 1, now, dict, to_publish,
                             Append(log, [skip |-> "Reddit Discussion Thread", link |-> entry.link]))
             ELSE IF entry.link \in DOMAIN dict
             THEN FilterLoopAgeFirst(entries, k + 1, now, dict, to_publish,
                             Append(log, [skip |-> "already published", link |-> entry.link]))
             ELSE FilterLoopAgeFirst(entries, k + 1, now, dict, Append(to_publish, entry), log)

\* lines 169-182: the filter loop, from feed entry k on
RECURSIVE FilterLoop(_, _, _, _, _, _)
FilterLoop(entries, k, now, dict, to_publish, log) ==
    IF k > Len(entries) THEN [entries_to_publish |-> to_publish, skip_log |-> log]
    ELSE LET entry == entries[k]
         IN  IF Contains(entry.title, DailyThread)
             THEN FilterLoop(entries, k + 1, now, dict, to_publish,
                             Append(log, [skip |-> "Reddit Discussion Thread", link |-> entry.link]))
             ELSE IF OlderThanLimit(now, entry.published)
             THEN FilterLoop(entries, k + 1, now, dict, to_publish,
                             Append(log, [skip |-> "published >24h ago", link |-> entry.link]))
             ELSE IF entry.link \in DOMAIN dict
             THEN FilterLoop(entries, k + 1, now, dict, to_publish,
                             Append(log, [skip |-> "already published", link |-> entry.link]))
             ELSE FilterLoop(entries, k + 1, now, dict, Append(to_publish, entry), log)

Init ==
    /\ BotIdle
    /\ x_pc = "off"
    /\ x_summary = <<>>
    /\ x_result = NoResult
    /\ x_labels = <<>>
    /\ x_first = [summary |-> <<>>, labels |-> <<>>, result |-> NoResult]

\* time passes
Tick ==
    /\ \E d \in TickSteps :
          /\ clock + d <= MaxClock
          /\ clock' = clock + d
    /\ UNCHANGED <<published_urls_json, last_date_published, pc, feed, dt_now,
                   published_urls_dict, entries_to_publish, idx, skip_log, ignore_log,
                   posted, prune_now, pruned_dict, json_at_start, runs, 
                   saved_posts, lost_posts, xvars>>

\* lines 144-162: a run starts, fetches the feed, reads the clock, writes the marker
StartRun ==
    /\ pc = "idle"
    /\ runs < MaxRuns
    /\ \E f \in Feeds : feed' = f
    /\ dt_now' = clock
    /\ last_date_published' = PyInt(clock)
    /\ pc' = "load"
    /\ runs' = runs + 1
    /\ json_at_start' = published_urls_json
    /\ UNCHANGED <<clock, published_urls_json, published_urls_dict, entries_to_publish,
                   idx, skip_log, ignore_log, posted, prune_now, pruned_dict,
                   saved_posts, lost_posts, xvars>>

\* lines 164-166
LoadAndPrune ==
    /\ pc = "load"
    /\ prune_now' = clock
    /\ published_urls_dict' = RemoveOldUrlKeys(LoadPublishedUrlsDict, clock, LimitHours)
    /\ pruned_dict' = published_urls_dict'
    /\ pc' = "filter"
    /\ UNCHANGED <<clock, published_urls_json, last_date_published, feed, dt_now,
                   entries_to_publish, idx, skip_log, ignore_log, posted, json_at_start,
                   runs, saved_posts, lost_posts, xvars>>

\* lines 168-184
Filter ==
    /\ pc = "filter"
    /\ LET r == FilterLoop(feed, 1, dt_now, published_urls_dict, <<>>, <<>>)
       IN  /\ entries_to_publish' = r.entries_to_publish
           /\ skip_log' = r.skip_log
    /\ idx' = 1
    /\ pc' = "publish"
    /\ UNCHANGED <<clock, published_urls_json, last_date_published, feed, dt_now,
                   published_urls_dict, ignore_log, posted, prune_now, pruned_dict,
                   json_at_start, runs, saved_posts, lost_posts, xvars>>

\* lines 189-190 for the entry the publish loop is at
Extracted == FormatAndExtract(entries_to_publish[idx].summary)
BaseDomain == FindBaseDomain(Extracted.extracted_url)

\* a variant of IsIgnored: the test is negated
IsIgnoredNegated(base_domain, ignored_domains) == base_domain \notin ignored_domains

\* line 192
IsIgnored(base_domain, ignored_domains) == base_domain \in ignored_domains

\* lines 186-195: the domain is on the ignore list
IgnorePost ==
    /\ pc = "publish"
    /\ idx <= Len(entries_to_publish)
    /\ IsIgnored(BaseDomain, LoadIgnoredDomains)
    /\ ignore_log' = Append(ignore_log, [domain |-> BaseDomain,
                                         link |-> entries_to_publish[idx].link])
    /\ idx' = idx + 1
    /\ UNCHANGED <<clock, published_urls_json, last_date_published, pc, feed, dt_now,
                   published_urls_dict, entries_to_publish, skip_log, posted, prune_now,
                   pruned_dict, json_at_start, runs, saved_posts,
                   lost_posts, xvars>>

\* a variant of RecordPublished: the record holds the time of the post
RecordPublishedNow(dict, entry) == DictSet(dict, entry.link, [published_time |-> clock])

\* line 208
RecordPublished(dict, entry) == DictSet(dict, entry.link, [published_time |-> entry.published])

\* a variant of PublishPost: the file is written after every post
PublishPostSavingEach ==
    /\ pc = "publish"
    /\ idx <= Len(entries_to_publish)
    /\ ~IsIgnored(BaseDomain, LoadIgnoredDomains)
    /\ posted' = Append(posted, [entry |-> entries_to_publish[idx],
                                 name |-> HtmlUnescape(entries_to_publish[idx].title),
                                 url |-> Extracted.extracted_url,
                                 body |-> Extracted.formatted,
                                 at |-> clock])
    /\ published_urls_dict' = RecordPublished(published_urls_dict, entries_to_publish[idx])
    /\ published_urls_json' = published_urls_dict'
    /\ idx' = idx + 1
    /\ UNCHANGED <<clock, last_date_published, pc, feed, dt_now,
                   entries_to_publish, skip_log, ignore_log, prune_now, pruned_dict,
                   json_at_start, runs, saved_posts, lost_posts, xvars>>

\* lines 186-208: the post is created and recorded
PublishPost ==
    /\ pc = "publish"
    /\ idx <= Len(entries_to_publish)
    /\ ~IsIgnored(BaseDomain, LoadIgnoredDomains)
    /\ posted' = Append(posted, [entry |-> entries_to_publish[idx],
                                 name |-> HtmlUnescape(entries_to_publish[idx].title),
                                 url |-> Extracted.extracted_url,
                                 body |-> Extracted.formatted,
                                 at |-> clock])
    /\ published_urls_dict' = RecordPublished(published_urls_dict, entries_to_publish[idx])
    /\ idx' = idx + 1
    /\ UNCHANGED <<clock, published_urls_json, last_date_published, pc, feed, dt_now,
                   entries_to_publish, skip_log, ignore_log, prune_now, pruned_dict,
                   json_at_start, runs, saved_posts, lost_posts, xvars>>

\* lines 199-204: lemmy.post.create raises, nothing catches it, the run ends
PostCreateRaises ==
    /\ pc = "publish"
    /\ idx <= Len(entries_to_publish)
    /\ ~IsIgnored(BaseDomain, LoadIgnoredDomains)
    /\ pc' = "stopped"
    /\ UNCHANGED <<clock, published_urls_json, last_date_published, feed, dt_now,
                   published_urls_dict, entries_to_publish, idx, skip_log, ignore_log,
                   posted, prune_now, pruned_dict, json_at_start, runs, 
                   saved_posts, lost_posts, xvars>>

\* the process is killed anywhere between the start of a run and its save
Killed ==
    /\ pc \in {"load", "filter", "publish"}
    /\ pc' = "stopped"
    /\ UNCHANGED <<clock, published_urls_json, last_date_published, feed, dt_now,
                   published_urls_dict, entries_to_publish, idx, skip_log, ignore_log,
                   posted, prune_now, pruned_dict, json_at_start, runs, 
                   saved_posts, lost_posts, xvars>>

\* lines 74-76
SavePublishedUrlsDict(dict) == dict

\* line 211
Save ==
    /\ pc = "publish"
    /\ idx > Len(entries_to_publish)
    /\ published_urls_json' = SavePublishedUrlsDict(published_urls_dict)
    /\ pc' = "saved"
    /\ UNCHANGED <<clock, last_date_published, feed, dt_now, published_urls_dict,
                   entries_to_publish, idx, skip_log, ignore_log, posted, prune_now,
                   pruned_dict, json_at_start, runs, saved_posts,
                   lost_posts, xvars>>

PostedEntries == {posted[k].entry : k \in 1..Len(posted)}

\* the process ends and its memory is gone; the files stay
Exit ==
    /\ pc \in {"saved", "stopped"}
    /\ pc' = "idle"
    /\ saved_posts' = IF pc = "saved" THEN saved_posts \cup PostedEntries ELSE saved_posts
    /\ lost_posts' = IF pc = "saved" THEN {} ELSE lost_posts \cup PostedEntries
    /\ feed' = <<>>
    /\ dt_now' = 0
    /\ published_urls_dict' = <<>>
    /\ entries_to_publish' = <<>>
    /\ idx' = 1
    /\ skip_log' = <<>>
    /\ ignore_log' = <<>>
    /\ posted' = <<>>
    /\ prune_now' = 0
    /\ pruned_dict' = <<>>
    /\ json_at_start' = <<>>
    /\ UNCHANGED <<clock, published_urls_json, last_date_published, runs, xvars>>

Next ==
    \/ Tick
    \/ StartRun
    \/ LoadAndPrune
    \/ Filter
    \/ IgnorePost
    \/ PublishPost
    \/ PostCreateRaises
    \/ Killed
    \/ Save
    \/ Exit

Spec == Init /\ [][Next]_vars


----------------------------------------------------------------------------
(* The bot: properties, checked under Spec *)

\* the entry the publish loop is at
Current == entries_to_publish[idx]
\* lemmy.post.create is called in this step
PostCreated == pc = "publish" /\ Len(posted') = Len(posted) + 1

\* C1: lemmy.post.create is never called for an entry whose URL is, at the
\* moment of the call, a key of the PublishRecord with a timestamp that has not
\* expired (now - published_time < 24h).
C1_NeverPostsRecordedUrl ==
    [][PostCreated =>
          ~(/\ Current.link \in DOMAIN published_urls_dict
            /\ clock - published_urls_dict[Current.link].published_time < LimitHours)]_vars

\* C2: an entry that an earlier run published, recorded and saved is not
\* published again by a later run that starts while the age rule does not
\* exclude it (now - published <= 24h): it is skipped as already published.
C2_SavedEntryPublishedOnce ==
    \A k \in 1..Len(posted) :
        ~(/\ posted[k].entry \in saved_posts
          /\ dt_now - posted[k].entry.published <= LimitHours)

\* C3: an entry with now - entry.published > 24h (now = main's dt_now) is never
\* put in the eligible list and never published, whatever its URL, its domain
\* and the PublishRecord.
C3_OldEntryNeverEligible ==
    \A i \in 1..Len(feed) :
        dt_now - feed[i].published > LimitHours =>
            /\ \A k \in 1..Len(entries_to_publish) : entries_to_publish[k] # feed[i]
            /\ feed[i] \notin PostedEntries

\* C3 witness: a run has ended whose feed held an entry older than 24h that is
\* no daily thread and whose URL is not in the PublishRecord
C3_Witness ==
    /\ pc = "saved"
    /\ \E i \in 1..Len(feed) :
          /\ dt_now - feed[i].published > LimitHours
          /\ ~Contains(feed[i].title, DailyThread)
          /\ feed[i].link \notin DOMAIN pruned_dict

IsDailyThread(e) == Contains(e.title, DailyThread)
IsTooOld(e) == dt_now - e.published > LimitHours
IsRecorded(e) == e.link \in DOMAIN pruned_dict
NoRuleMatches(e) == ~IsDailyThread(e) /\ ~IsTooOld(e) /\ ~IsRecorded(e)
SomeRuleMatches(e) == ~NoRuleMatches(e)
FirstRule(e) ==
    IF IsDailyThread(e) THEN "Reddit Discussion Thread"
    ELSE IF IsTooOld(e) THEN "published >24h ago"
    ELSE "already published"

\* C5: the eligible list is exactly the feed entries, in feed order, that none
\* of the three rules matches; a skipped entry is logged with the first rule
\* that matches it (daily thread, then age, then already published); a feed of
\* one daily-thread entry gives one skip and no publish call.
C5_EligibleIsFilteredFeed ==
    pc \in {"publish", "saved"} =>
        /\ entries_to_publish = SelectSeq(feed, NoRuleMatches)
        /\ LET skipped == SelectSeq(feed, SomeRuleMatches)
           IN  skip_log = [k \in 1..Len(skipped) |->
                              [skip |-> FirstRule(skipped[k]), link |-> skipped[k].link]]
        /\ (Len(feed) = 1 /\ IsDailyThread(feed[1])) => posted = <<>> /\ Len(skip_log) = 1

\* C5 witness: the filter has seen a daily thread that is also older than 24h,
\* and an eligible entry after it
C5_Witness ==
    /\ pc = "publish"
    /\ Len(feed) = 2
    /\ IsDailyThread(feed[1]) /\ IsTooOld(feed[1])
    /\ entries_to_publish = <<feed[2]>>

\* C6: the domain gate suppresses an eligible entry iff the registrable domain
\* of its extracted URL is in the ignore set. A suppressed entry is neither
\* published nor added to the PublishRecord; when no domain can be extracted
\* the sentinel -1 matches nothing and the entry is published.
C6_DomainGate ==
    [][(pc = "publish" /\ idx' = idx + 1) =>
          LET url == FormatAndExtract(Current.summary).extracted_url
              domain == FindBaseDomain(url)
          IN  /\ domain \in LoadIgnoredDomains =>
                    /\ posted' = posted
                    /\ published_urls_dict' = published_urls_dict
                    /\ Len(ignore_log') = Len(ignore_log) + 1
              /\ domain \notin LoadIgnoredDomains =>
                    /\ Len(posted') = Len(posted) + 1
                    /\ posted'[Len(posted')].entry = Current
                    /\ Current.link \in DOMAIN published_urls_dict'
                    /\ ignore_log' = ignore_log
              /\ url = PyNone =>
                    /\ domain = PyInt(-1)
                    /\ Len(posted') = Len(posted) + 1]_vars

\* C6 witness: in one run an entry was suppressed and an entry with no
\* extracted URL was published
C6_Witness ==
    /\ ignore_log # <<>>
    /\ \E k \in 1..Len(posted) : posted[k].url = PyNone
    /\ \A k \in 1..Len(ignore_log) : ignore_log[k].link \notin DOMAIN published_urls_dict
           \/ \E j \in 1..Len(posted) : posted[j].entry.link = ignore_log[k].link

\* the file is written by the save alone, once every eligible entry was handled
WrittenOnceAtTheEnd ==
    published_urls_json' # published_urls_json =>
        pc = "publish" /\ idx > Len(entries_to_publish) /\ pc' = "saved"
\* a run that has not saved has left the file as it found it
UnchangedBeforeSave ==
    pc \in {"load", "filter", "publish", "stopped"} => published_urls_json = json_at_start
\* the next run that completes publishes again what the stopped runs had
\* published, if its feed holds it within the retention window
LostPostsPublishedAgain ==
    pc = "saved" =>
        \A e \in lost_posts :
            (/\ \E i \in 1..Len(feed) : feed[i] = e
             /\ dt_now - e.published <= LimitHours) => e \in PostedEntries

\* C7: the file is written once per run, after the last publish
\* attempt; a run that stops before its save leaves the file as it was, so the
\* URL of every entry it published is still absent from the file, and the
\* entry is published again by the next run that sees it within the window.
C7_StoppedRunLeavesUrlsAbsent ==
    [][/\ WrittenOnceAtTheEnd
       /\ UnchangedBeforeSave'
       /\ LostPostsPublishedAgain'
       /\ pc' = "stopped" =>
             \A e \in PostedEntries' : e.link \notin DOMAIN published_urls_json']_vars

\* What holds of a stopped run instead: the URL of an entry it published may
\* still be in the file, but only with an expired timestamp (one that pruning
\* dropped); the rest is as in C7.
C7_StoppedRunLeavesNoLiveRecord ==
    [][/\ WrittenOnceAtTheEnd
       /\ UnchangedBeforeSave'
       /\ LostPostsPublishedAgain'
       /\ pc' = "stopped" =>
             \A e \in PostedEntries' :
                 \/ e.link \notin DOMAIN published_urls_json'
                 \/ prune_now' - published_urls_json'[e.link].published_time >= LimitHours]_vars

\* a run that follows a stopped run has published again an entry the stopped
\* run had published, and has saved
LostPostRepublished ==
    /\ pc = "saved"
    /\ lost_posts \cap PostedEntries # {}

\* the last post of the run for a link
LastPostOf(u) ==
    CHOOSE k \in 1..Len(posted) :
        /\ posted[k].entry.link = u
        /\ \A j \in 1..Len(posted) : posted[j].entry.link = u => j <= k
PostedLinks == {posted[k].entry.link : k \in 1..Len(posted)}
\* the file holds the pruned record and the links of the posts, nothing else,
\* and the pruned records of other links are unchanged
SavedKeys ==
    /\ DOMAIN published_urls_json = DOMAIN pruned_dict \cup PostedLinks
    /\ \A u \in DOMAIN pruned_dict \ PostedLinks : published_urls_json[u] = pruned_dict[u]

\* C8 as stated: after the save the file is the pruned record plus, for each
\* entry published in the run, its URL mapped to the time at which the run
\* published it; no URL of a skipped or suppressed entry is added and no other
\* key is removed or changed.
C8_SavedWithPublishTime ==
    pc = "saved" =>
        /\ SavedKeys
        /\ \A u \in PostedLinks :
              published_urls_json[u].published_time = posted[LastPostOf(u)].at
        /\ \A k \in 1..Len(skip_log) :
              skip_log[k].link \in DOMAIN published_urls_json
                  => skip_log[k].link \in DOMAIN pruned_dict
        /\ \A k \in 1..Len(ignore_log) :
              ignore_log[k].link \in DOMAIN published_urls_json
                  => ignore_log[k].link \in DOMAIN pruned_dict

\* C8 as amended: after the save the file is the pruned record plus, for each
\* entry published in the run, its URL mapped to that entry's own publication
\* timestamp (entry.published; of the last such entry when several share the
\* URL); no key that is not the URL of a published entry is added, and no
\* other key is removed or changed.
C8_SavedWithEntryPublished ==
    pc = "saved" =>
        /\ SavedKeys
        /\ \A u \in PostedLinks :
              published_urls_json[u] = [published_time |-> posted[LastPostOf(u)].entry.published]

\* C8 witness: a run that loaded an unexpired record has published an entry at
\* a time other than the entry's publication time, suppressed another, and saved
C8_Witness ==
    /\ pc = "saved"
    /\ DOMAIN pruned_dict # {}
    /\ ignore_log # <<>>
    /\ \E k \in 1..Len(posted) : posted[k].at # posted[k].entry.published

----------------------------------------------------------------------------
(* format_and_extract: properties, checked under SpecExtract *)

\* an anchor text with no HTML escape left in it
NoEscapes(text) == \A i \in 1..Len(text) : UnescapeToken(text[i]) = text[i]

\* C9: extractor idempotence. Applying the label rule to the labels it produced
\* (for anchor texts with no HTML escape left) gives the same labels again.
C9_LabelRuleIdempotent ==
    (x_pc = "again" /\ \A k \in 1..Len(x_first.summary) :
                           NoEscapes(x_first.summary[k].first_child))
        => x_labels = x_first.labels

\* each anchor has its own bullet line "- [label](href)", in document order
OneLinePerAnchor ==
    LET lines == Lines(x_result.formatted)
    IN  /\ Len(lines) = Len(x_summary)
        /\ \A k \in 1..Len(lines) :
              /\ Len(lines[k]) >= 4
              /\ Head(lines[k]) = "- ["
              /\ SubSeq(lines[k], Len(lines[k]) - 2, Len(lines[k]))
                     = <<"](", x_summary[k].href, ")">>

\* the anchors whose visible text (stripped) is [link]
LinkAnchors == {k \in 1..Len(x_summary) : Strip(x_summary[k].first_child) = LinkText}

=============================================================================
